---- MODULE Spec2Model ----
(***************************************************************************)
(* A model of osm_clipper (src/src/osm_clipper.py): the geometry clean-up  *)
(* remove_tiny_shapes, the catalogue preparation global_shapefiles, the    *)
(* boundary writer poly_files, the clipping functions clip_osm_osmconvert  *)
(* and clip_osm_osmosis and their drivers single_country, all_countries.   *)
(*                                                                         *)
(* Areas are planar areas in thousandths of a square degree (0.001 -> 1),  *)
(* distances are whole kilometres (a float d satisfies d < 2000 exactly    *)
(* when its integer part does), strings are TLA+ strings joined with \o.   *)
(***************************************************************************)
EXTENDS Integers, Sequences, FiniteSets, TLC

VARIABLES
    x,              \* remove_tiny_shapes: the row passed in (GID_0, geometry)
    rts_regionalized, \* remove_tiny_shapes: its regionalized argument
    rts_result,     \* remove_tiny_shapes: the value returned ("pending" before the call)
    gadm,           \* GADM36/gadm36_levels.gpkg: layer name -> table
    gpkg,           \* the written .gpkg files: path -> table, or NoFile
    assigned_level, \* global_shapefiles: the requested level of the regional run
    layers_read,    \* the GADM layers read so far
    stdout,         \* the lines printed so far
    poly_dir,       \* the .poly files: directory -> set of files
    poly_call,      \* poly_files: the arguments of the call made, or NoCall
    pc,             \* the calls made so far, one tag per operation
    osm,            \* the .osm.pbf extracts on disk: a set of files
    invoked,        \* the command lines handed to os.system so far
    pool,           \* the tasks of the running pool.starmap, in list order
    batch_call      \* single_country / all_countries: the call made, or NoCall

clipVars == <<osm, invoked, pool, batch_call>>

vars == <<x, rts_regionalized, rts_result, gadm, gpkg, assigned_level,
          layers_read, stdout, poly_dir, poly_call, pc, osm, invoked, pool,
          batch_call>>

(***************************************************************************)
(* Values                                                                  *)
(***************************************************************************)
None == [type |-> "NoneType"]   \* Python's None
NaN == "NaN"            \* pandas' missing value
NoFile == [exists |-> FALSE]    \* os.path.exists(path) is False
NoCall == [called |-> FALSE]
\* no extract on disk, no command issued, no pool, no batch call
NoClip == osm = {} /\ invoked = <<>> /\ pool = <<>> /\ batch_call = NoCall

\* a table read from or written to a file: its columns and its rows
Table(cols, rows) == [exists |-> TRUE, cols |-> cols, rows |-> rows]

\* pygeos.geometry.get_type_id / shapely geom_type
Polygon(r) == [type |-> "Polygon", rings |-> <<r>>]
MultiPolygon(rs) == [type |-> "MultiPolygon", rings |-> rs]
GeometryCollection == [type |-> "GeometryCollection", rings |-> <<>>]

(***************************************************************************)
(* remove_tiny_shapes                                                      *)
(***************************************************************************)
\* the literals of remove_tiny_shapes, in thousandths
Area1Default == 100         \* area1 = 0.1
Area2Default == 250000      \* area2 = 250
Area1Regionalized == 10     \* area1 = 0.01
Area2Regionalized == 50000  \* area2 = 50
ThresholdOverride == 10     \* threshold = 0.01
ThresholdBig == 100         \* threshold = 0.1
ThresholdSmall == 1         \* threshold = 0.001

RECURSIVE SumAreas(_)
SumAreas(rs) == IF rs = <<>> THEN 0 ELSE Head(rs).area + SumAreas(Tail(rs))

\* pygeos.area: the planar area of a polygon or of all parts of a multipolygon
Area(g) == SumAreas(g.rings)

\* area1 with the two modes swapped
area1_swapped(regionalized) == IF regionalized THEN Area1Default ELSE Area1Regionalized

area1(regionalized) == IF regionalized THEN Area1Regionalized ELSE Area1Default
area2(regionalized) == IF regionalized THEN Area2Regionalized ELSE Area2Default

threshold(row, regionalized) ==
    IF row.GID_0 \in {"CHL", "IDN"} THEN ThresholdOverride
    ELSE IF row.GID_0 \in {"RUS", "GRL", "CAN", "USA"}
         THEN (IF regionalized THEN ThresholdOverride ELSE ThresholdOverride)
    ELSE IF Area(row.geometry) > area2(regionalized) THEN ThresholdBig
    ELSE ThresholdSmall

\* the loop keeping a part whose area equals the threshold
RECURSIVE new_geom_inclusive(_, _)
new_geom_inclusive(rs, t) ==
    IF rs = <<>> THEN <<>>
    ELSE IF Head(rs).area >= t THEN <<Head(rs)>> \o new_geom_inclusive(Tail(rs), t)
    ELSE new_geom_inclusive(Tail(rs), t)

\* the loop over get_num_geometries: the parts whose area exceeds t, in order
RECURSIVE new_geom(_, _)
new_geom(rs, t) ==
    IF rs = <<>> THEN <<>>
    ELSE IF Head(rs).area > t THEN <<Head(rs)>> \o new_geom(Tail(rs), t)
    ELSE new_geom(Tail(rs), t)

remove_tiny_shapes(row, regionalized) ==
    IF row.geometry.type = "Polygon" THEN row.geometry
    ELSE IF row.geometry.type = "MultiPolygon" THEN
        IF Area(row.geometry) < area1(regionalized) THEN row.geometry
        ELSE MultiPolygon(new_geom(row.geometry.rings, threshold(row, regionalized)))
    ELSE None

(***************************************************************************)
(* poly_files                                                              *)
(*                                                                         *)
(* A table is [exists, cols, rows]; a row carries every field, NaN where   *)
(* the table has no such column.  Coordinates are hundredths of a degree,  *)
(* a point is <<lon, lat>> as shapely keeps it.                            *)
(***************************************************************************)
WorldCountriesPath == "input_data/global_countries.gpkg"
RegionsPath == "input_data/global_regions.gpkg"
CountryPath == "cleaned_shapes/global_countries.gpkg"
Paths == {WorldCountriesPath, RegionsPath, CountryPath}

CountryPolyDir == "country_poly_files"
RegionalPolyDir == "regional_poly_files"
PolyDirs == {CountryPolyDir, RegionalPolyDir}

\* the reference points of the two exclusion rules, as (lat, lon)
CANReference == <<8324, -7980>>
RUSReference == <<5889, 8226>>
CANCutoff == 2000
RUSCutoff == 500

\* reversed(polygon.centroid.coords[:1][0]): (lon, lat) -> (lat, lon)
reversed(p) == <<p[2], p[1]>>

\* geopy's geodesic(a, b, ellipsoid='WGS-84').kilometers in whole kilometres,
\* tabulated for the centroids the model uses: points on the meridian of each
\* reference, on both sides of its cut-off.  Arguments are (lat, lon).
geodesic(a, b) ==
    CASE a = <<6532, -7980>> /\ b = CANReference -> 1999
      [] a = <<6531, -7980>> /\ b = CANReference -> 2000
      [] a = <<5441, 8226>> /\ b = CANReference -> 4686
      [] a = <<5440, 8226>> /\ b = CANReference -> 4687
      [] a = <<6532, -7980>> /\ b = RUSReference -> 5921
      [] a = <<6531, -7980>> /\ b = RUSReference -> 5922
      [] a = <<5441, 8226>> /\ b = RUSReference -> 499
      [] a = <<5440, 8226>> /\ b = RUSReference -> 500
      [] OTHER -> 9999

\* str() of a coordinate: Python's shortest repr of a float with at most two
\* decimals, e.g. -79.8, 65.32, 54.0
str_float(c) ==
    LET n == IF c < 0 THEN 0 - c ELSE c
        frac == n % 100
    IN  (IF c < 0 THEN "-" ELSE "") \o ToString(n \div 100) \o "." \o
        (IF frac % 10 = 0 THEN ToString(frac \div 10)
         ELSE IF frac < 10 THEN "0" \o ToString(frac)
         ELSE ToString(frac))

\* f.write("    " + str(ring[0]) + "     " + str(ring[1]) + "\n")
vertex_line(v) == "    " \o str_float(v[1]) \o "     " \o str_float(v[2])

RECURSIVE vertex_lines(_)
vertex_lines(vs) ==
    IF vs = <<>> THEN <<>> ELSE <<vertex_line(Head(vs))>> \o vertex_lines(Tail(vs))

\* the two tests with the cut-off distance itself excluded too
skipped_inclusive(ctry, polygon) ==
    \/ ctry = "CAN" /\ geodesic(reversed(polygon.centroid), CANReference) <= CANCutoff
    \/ ctry = "RUS" /\ geodesic(reversed(polygon.centroid), RUSReference) <= RUSCutoff

\* the two centroid-distance tests at the head of the ring loop
skipped(ctry, polygon) ==
    \/ ctry = "CAN" /\ geodesic(reversed(polygon.centroid), CANReference) < CANCutoff
    \/ ctry = "RUS" /\ geodesic(reversed(polygon.centroid), RUSReference) < RUSCutoff

\* the loop "for polygon in polygons": the lines written after the first one
\* (out) and the lines printed (printed), i being the next ring index
RECURSIVE ring_loop(_, _, _, _)
ring_loop(polygons, ctry, attr, i) ==
    IF polygons = <<>> THEN [out |-> <<>>, printed |-> <<>>]
    ELSE LET polygon == Head(polygons) IN
         IF skipped(ctry, polygon)
         THEN LET rest == ring_loop(Tail(polygons), ctry, attr, i)
              IN  [out |-> rest.out,
                   printed |-> (IF ctry = "RUS" THEN <<attr>> ELSE <<>>) \o rest.printed]
         ELSE LET rest == ring_loop(Tail(polygons), ctry, attr, i + 1)
              IN  [out |-> <<ToString(i)>> \o vertex_lines(polygon.exterior) \o <<"END">>
                              \o rest.out,
                   printed |-> rest.printed]

\* ctry taken from the code the artifact is named by
ctry_from_attr(f) == IF f.GID_1 # NaN THEN f.GID_1 ELSE f.GID_0

\* ctry = f['GID_0']
ctry_of(f) == f.GID_0

\* attr = f['GID_1'] if regionalized else f['GID_0']
attr_of(f, regionalized) == IF regionalized THEN f.GID_1 ELSE f.GID_0

\* the filter on wb_poly before the loop
wb_poly_filter(rows, regionalized) ==
    LET assigned == SelectSeq(rows, LAMBDA f : f.GID_0 # "-")
    IN  IF regionalized THEN SelectSeq(assigned, LAMBDA f : f.TYPE_1 # "Water body")
        ELSE assigned

\* open(name, 'w') followed by the writes: the file replaces one of that name
write_file(files, name, lines) ==
    {g \in files : g.name # name} \cup {[name |-> name, lines |-> lines]}

Unbound == [bound |-> FALSE, value |-> <<>>]
Bound(v) == [bound |-> TRUE, value |-> v]

\* the loop "for f in wb_poly.iterrows()".  st = [files, polygons, printed,
\* status]; polygons is the local variable of that name, which keeps its value
\* from one row to the next and is unbound before the first assignment.
\* flushed: whether the first line of a file left open by an exception
\* reaches the disk.
RECURSIVE row_loop(_, _, _, _, _)
row_loop(rows, cols, regionalized, flushed, st) ==
    IF rows = <<>> \/ st.status # "ok" THEN st
    ELSE
    LET f == Head(rows)
        polygons ==
            IF f.geometry.type = "MultiPolygon" THEN Bound(f.geometry.rings)
            ELSE IF f.geometry.type = "Polygon" THEN Bound(f.geometry.rings)
            ELSE st.polygons
        ctry == ctry_of(f)
        attr == attr_of(f, regionalized)
        name == attr \o ".poly"
    IN  IF regionalized /\ "GID_1" \notin cols
            THEN [st EXCEPT !.status = "KeyError"]
        ELSE IF attr = NaN
            THEN [st EXCEPT !.status = "TypeError", !.polygons = polygons]
        ELSE IF ~polygons.bound
            THEN [st EXCEPT !.status = "NameError",
                            !.files = write_file(@, name,
                                                 IF flushed THEN <<attr>> ELSE <<>>)]
        ELSE LET written == ring_loop(polygons.value, ctry, attr, 0)
             IN  row_loop(Tail(rows), cols, regionalized, flushed,
                          [files |-> write_file(st.files, name,
                                                <<attr>> \o written.out \o <<"END">>),
                           polygons |-> polygons,
                           printed |-> st.printed \o written.printed,
                           status |-> "ok"])

\* poly_files(data_path, global_shape, regionalized), on the table read from
\* global_shape and the files already in poly_dir
poly_files(table, files, regionalized, flushed) ==
    IF regionalized /\ "TYPE_1" \notin table.cols
    THEN [files |-> files, polygons |-> Unbound, printed |-> <<>>, status |-> "KeyError"]
    ELSE row_loop(wb_poly_filter(table.rows, regionalized), table.cols, regionalized,
                  flushed,
                  [files |-> files, polygons |-> Unbound, printed |-> <<>>,
                   status |-> "ok"])

\* world_path as single_country and all_countries choose it
world_path(regionalized) == IF regionalized THEN RegionsPath ELSE WorldCountriesPath

\* poly_dir as poly_files chooses it
poly_dir_of(regionalized) == IF regionalized THEN RegionalPolyDir ELSE CountryPolyDir

\* one call poly_files(data_path, world_path, regionalized=regionalized)
PolyFiles ==
    \E regionalized \in BOOLEAN, flushed \in BOOLEAN :
        /\ "poly_files" \notin pc
        /\ gpkg # <<>>
        /\ gpkg[world_path(regionalized)] # NoFile
        /\ LET dir == poly_dir_of(regionalized)
               done == poly_files(gpkg[world_path(regionalized)], poly_dir[dir],
                                  regionalized, flushed)
           IN  /\ poly_dir' = [poly_dir EXCEPT ![dir] = done.files]
               /\ stdout' = stdout \o done.printed
               /\ poly_call' = [called |-> TRUE, regionalized |-> regionalized,
                                status |-> done.status]
        /\ pc' = pc \cup {"poly_files"}
        /\ UNCHANGED <<clipVars, x, rts_regionalized, rts_result, gadm, gpkg, assigned_level,
                       layers_read>>

(***************************************************************************)
(* global_shapefiles                                                       *)
(***************************************************************************)
\* pygeos.simplify(pygeos.buffer(pygeos.simplify(x, 0.005), 0.01), 0.005): the
\* parts are kept in their order (the change of their coordinates is outside
\* this model); a buffer of one part comes back as a Polygon
simplify(g) == IF g.type = "MultiPolygon" /\ Len(g.rings) = 1 THEN Polygon(g.rings[1]) ELSE g

\* progress_apply(remove_tiny_shapes, axis=1) and the simplification after it,
\* remove_tiny_shapes being called with its default regionalized=False
clean_rows(rows) ==
    [i \in 1..Len(rows) |->
        [rows[i] EXCEPT !.geometry = simplify(remove_tiny_shapes(rows[i], FALSE))]]

\* the branch regionalized == False: the table written to the country file
global_countries(layers) ==
    LET gadm_level0 == layers["level0"]
        kept == SelectSeq(gadm_level0.rows, LAMBDA f : f.NAME_0 # "Antarctica")
    IN  Table(gadm_level0.cols, clean_rows(kept))

\* the region code with one '.0' fewer
missing_code_short(gid0, level) ==
    CASE level = 1 -> gid0 \o "_" \o ToString(1)
      [] level = 2 -> gid0 \o "." \o ToString(0) \o "_" \o ToString(1)
      [] level = 3 -> gid0 \o "." \o ToString(0) \o "." \o ToString(0) \o "_" \o ToString(1)
      [] level = 4 -> gid0 \o "." \o ToString(0) \o "." \o ToString(0) \o "." \o ToString(0)
                          \o "_" \o ToString(1)
      [] level = 5 -> gid0 \o "." \o ToString(0) \o "." \o ToString(0) \o "." \o ToString(0)
                          \o "." \o ToString(0) \o "_" \o ToString(1)
      [] OTHER -> NaN

\* the region code given to a country without rows at the level
missing_code(gid0, level) ==
    CASE level = 1 -> gid0 \o "." \o ToString(0) \o "_" \o ToString(1)
      [] level = 2 -> gid0 \o "." \o ToString(0) \o "." \o ToString(0) \o "_" \o ToString(1)
      [] level = 3 -> gid0 \o "." \o ToString(0) \o "." \o ToString(0) \o "." \o ToString(0)
                          \o "_" \o ToString(1)
      [] level = 4 -> gid0 \o "." \o ToString(0) \o "." \o ToString(0) \o "." \o ToString(0)
                          \o "." \o ToString(0) \o "_" \o ToString(1)
      [] level = 5 -> gid0 \o "." \o ToString(0) \o "." \o ToString(0) \o "." \o ToString(0)
                          \o "." \o ToString(0) \o "." \o ToString(0) \o "_" \o ToString(1)
      [] OTHER -> NaN

\* mis_country: the rows of the country file whose GID_0 has no row in the
\* region layer, each with its GID_<level> set
mis_country(gadm_level0, gadm_level_x, level) ==
    LET present == {gadm_level_x.rows[i].GID_0 : i \in 1..Len(gadm_level_x.rows)}
        missing == SelectSeq(gadm_level0.rows, LAMBDA f : f.GID_0 \notin present)
        column == "GID_" \o ToString(level)
    IN  [i \in 1..Len(missing) |->
            IF level \in 1..5
            THEN [missing[i] EXCEPT ![column] = missing_code(missing[i].GID_0, level)]
            ELSE missing[i]]

RegionLayer(level) == "layer" \o ToString(level)

CountryFileError == "ERROR: You need to create the country file first"

\* the branch regionalized == True, reading the region layer before looking
\* for the country file
global_regions_eager(files, layers, level) ==
    IF RegionLayer(level) \notin DOMAIN layers
    THEN [files |-> files, read |-> {}, printed |-> <<>>, status |-> "error"]
    ELSE IF files[CountryPath] = NoFile
    THEN [files |-> files, read |-> {RegionLayer(level)},
          printed |-> <<CountryFileError>>, status |-> "returned"]
    ELSE LET gadm_level0 == files[CountryPath]
             gadm_level_x == layers[RegionLayer(level)]
             cleaned == clean_rows(gadm_level_x.rows)
             added == mis_country(gadm_level0, gadm_level_x, level)
             cols == gadm_level_x.cols \cup gadm_level0.cols
                        \cup (IF level \in 1..5 THEN {"GID_" \o ToString(level)} ELSE {})
         IN  [files |-> [files EXCEPT ![RegionsPath] = Table(cols, cleaned \o added)],
              read |-> {RegionLayer(level)}, printed |-> <<>>, status |-> "ok"]

\* the branch regionalized == True: [files, read, printed, status], the files
\* after the call, the layers it read and the lines it printed
global_regions(files, layers, level) ==
    IF files[CountryPath] = NoFile
    THEN [files |-> files, read |-> {}, printed |-> <<CountryFileError>>,
          status |-> "returned"]
    ELSE IF RegionLayer(level) \notin DOMAIN layers
    THEN [files |-> files, read |-> {}, printed |-> <<>>, status |-> "error"]
    ELSE LET gadm_level0 == files[CountryPath]
             gadm_level_x == layers[RegionLayer(level)]
             cleaned == clean_rows(gadm_level_x.rows)
             added == mis_country(gadm_level0, gadm_level_x, level)
             cols == gadm_level_x.cols \cup gadm_level0.cols
                        \cup (IF level \in 1..5 THEN {"GID_" \o ToString(level)} ELSE {})
         IN  [files |-> [files EXCEPT ![RegionsPath] = Table(cols, cleaned \o added)],
              read |-> {RegionLayer(level)}, printed |-> <<>>, status |-> "ok"]

\* global_shapefiles(data_path, regionalized=False)
GlobalShapefilesCountries ==
    /\ "global_countries" \notin pc
    /\ "level0" \in DOMAIN gadm
    /\ gpkg' = [gpkg EXCEPT ![CountryPath] = global_countries(gadm)]
    /\ layers_read' = layers_read \cup {"level0"}
    /\ pc' = pc \cup {"global_countries"}
    /\ UNCHANGED <<clipVars, x, rts_regionalized, rts_result, gadm, assigned_level, stdout,
                   poly_dir, poly_call>>

\* global_shapefiles(data_path, regionalized=True, assigned_level=assigned_level)
GlobalShapefilesRegions ==
    /\ "global_regions" \notin pc
    /\ "level0" \in DOMAIN gadm
    /\ LET done == global_regions(gpkg, gadm, assigned_level)
       IN  /\ gpkg' = done.files
           /\ layers_read' = layers_read \cup done.read
           /\ stdout' = stdout \o done.printed
    /\ pc' = pc \cup {"global_regions"}
    /\ UNCHANGED <<clipVars, x, rts_regionalized, rts_result, gadm, assigned_level, poly_dir,
                   poly_call>>

(***************************************************************************)
(* Inputs of remove_tiny_shapes                                            *)
(***************************************************************************)
MaxParts == 3       \* parts of a multipolygon handed to remove_tiny_shapes

\* part areas on both sides of every literal of remove_tiny_shapes
PartAreas == {1, 2, 10, 11, 100, 101, 50000, 250000}

Part(a) == [area |-> a, centroid |-> <<0, 0>>, exterior |-> <<>>]

\* the sequences over S of length at most n
SeqsUpTo(S, n) == UNION {[1..k -> S] : k \in 0..n}

SimplifyGeometries ==
    {Polygon(Part(a)) : a \in PartAreas}
        \cup {MultiPolygon(ps) : ps \in SeqsUpTo({Part(a) : a \in PartAreas}, MaxParts)}
        \cup {GeometryCollection}

SimplifyCodes == {"CHL", "IDN", "RUS", "GRL", "CAN", "USA", "NLD"}

Pending == [type |-> "pending"]

\* everything outside remove_tiny_shapes at rest
NoCatalogue ==
    /\ gadm = <<>>
    /\ gpkg = <<>>
    /\ assigned_level = 0
    /\ layers_read = {}
    /\ stdout = <<>>
    /\ poly_dir = <<>>
    /\ poly_call = NoCall

InitSimplify ==
    /\ x \in [GID_0 : SimplifyCodes, geometry : SimplifyGeometries]
    /\ rts_regionalized \in BOOLEAN
    /\ rts_result = Pending
    /\ pc = {}
    /\ NoClip
    /\ NoCatalogue

\* one call remove_tiny_shapes(x, regionalized)
RemoveTinyShapes ==
    /\ rts_result = Pending
    /\ rts_result' = remove_tiny_shapes(x, rts_regionalized)
    /\ pc' = pc \cup {"remove_tiny_shapes"}
    /\ UNCHANGED <<clipVars, x, rts_regionalized, gadm, gpkg, assigned_level, layers_read,
                   stdout, poly_dir, poly_call>>

NextSimplify == RemoveTinyShapes

SpecSimplify == InitSimplify /\ [][NextSimplify]_vars

(***************************************************************************)
(* Inputs of poly_files                                                    *)
(***************************************************************************)
MaxRings == 3       \* rings of a multipolygon handed to poly_files
MaxRows == 2        \* rows of a table of several areas

\* a closed triangle around its centroid c
Triangle(c) ==
    <<<<c[1] - 100, c[2] - 25>>, <<c[1] + 100, c[2] - 25>>, <<c[1], c[2] + 50>>,
      <<c[1] - 100, c[2] - 25>>>>

Ring(c) == [area |-> 1000, centroid |-> c, exterior |-> Triangle(c)]

RingCANInside == Ring(<<-7980, 6532>>)      \* 1999 km from the CAN reference
RingCANEdge == Ring(<<-7980, 6531>>)        \* 2000 km from the CAN reference
RingRUSInside == Ring(<<8226, 5441>>)       \* 499 km from the RUS reference
RingRUSEdge == Ring(<<8226, 5440>>)         \* 500 km from the RUS reference
PolyRings == {RingCANInside, RingCANEdge, RingRUSInside, RingRUSEdge}

RichGeometries ==
    {Polygon(r) : r \in PolyRings}
        \cup {MultiPolygon(rs) : rs \in SeqsUpTo(PolyRings, MaxRings)}
        \cup {GeometryCollection}

FewGeometries ==
    {Polygon(RingCANInside), MultiPolygon(<<RingCANInside, RingRUSInside>>),
     MultiPolygon(<<RingCANEdge, RingRUSEdge>>), GeometryCollection}

PolyCodes == {"CAN", "RUS", "NLD", "-"}
RegionTypes == {"Province", "Water body"}

NameOf(code) ==
    CASE code = "CAN" -> "Canada"
      [] code = "RUS" -> "Russia"
      [] code = "NLD" -> "Netherlands"
      [] code = "ATA" -> "Antarctica"
      [] OTHER -> "-"

RECURSIVE Repeat(_, _)
Repeat(str, n) == IF n = 0 THEN "" ELSE str \o Repeat(str, n - 1)

\* the GADM code of the k-th region of a country at level j: CAN.2_1, CAN.2.1_1
RegionCode(code, k, j) == code \o "." \o ToString(k) \o Repeat(".1", j - 1) \o "_1"

CountryCols == {"GID_0", "NAME_0", "geometry"}
RegionCols(L) == {"GID_0", "NAME_0", "TYPE_1", "geometry"}
                    \cup {"GID_" \o ToString(j) : j \in 1..L}

\* a row of the layer level0
CountryRow(code, g) ==
    [GID_0 |-> code, NAME_0 |-> NameOf(code), GID_1 |-> NaN, GID_2 |-> NaN,
     GID_3 |-> NaN, GID_4 |-> NaN, GID_5 |-> NaN, TYPE_1 |-> NaN, geometry |-> g]

\* the k-th row of the layer of level L
RegionRow(code, k, L, type, g) ==
    LET gid(j) == IF j <= L THEN RegionCode(code, k, j) ELSE NaN
    IN  [GID_0 |-> code, NAME_0 |-> NameOf(code), GID_1 |-> gid(1), GID_2 |-> gid(2),
         GID_3 |-> gid(3), GID_4 |-> gid(4), GID_5 |-> gid(5), TYPE_1 |-> type,
         geometry |-> g]

\* a table of country rows, of region rows of level 1 numbered in their order
CountryTable(a) == Table(CountryCols, [i \in 1..Len(a) |-> CountryRow(a[i][1], a[i][2])])
RegionTable(a) ==
    Table(RegionCols(1), [i \in 1..Len(a) |-> RegionRow(a[i][1], i, 1, a[i][2], a[i][3])])

\* the world file poly_files will read holds the table, no other file exists
WorldFile(regionalized, table) ==
    gpkg = [p \in Paths |-> IF p = world_path(regionalized) THEN table ELSE NoFile]

NoSimplify ==
    /\ x = [GID_0 |-> "-", geometry |-> GeometryCollection]
    /\ rts_regionalized = FALSE
    /\ rts_result = Pending

\* a world file of either kind is in place, holding one area with any geometry
\* or up to MaxRows areas; nothing else has run
InitPoly ==
    /\ NoSimplify
    /\ gadm = <<>>
    /\ \/ \E c \in PolyCodes, g \in RichGeometries :
              WorldFile(FALSE, CountryTable(<<<<c, g>>>>))
       \/ \E n \in 0..MaxRows : \E a \in [1..n -> PolyCodes \X FewGeometries] :
              WorldFile(FALSE, CountryTable(a))
       \/ \E c \in PolyCodes, t \in RegionTypes, g \in RichGeometries :
              WorldFile(TRUE, RegionTable(<<<<c, t, g>>>>))
       \/ \E n \in 0..MaxRows :
              \E a \in [1..n -> PolyCodes \X RegionTypes \X FewGeometries] :
                  WorldFile(TRUE, RegionTable(a))
    /\ assigned_level = 0
    /\ layers_read = {}
    /\ stdout = <<>>
    /\ poly_dir = [d \in PolyDirs |-> {}]
    /\ poly_call = NoCall
    /\ pc = {}
    /\ NoClip

NextPoly == PolyFiles

SpecPoly == InitPoly /\ [][NextPoly]_vars

(***************************************************************************)
(* Inputs of global_shapefiles                                             *)
(***************************************************************************)
MaxCountries == 2   \* rows of the layer level0
MaxRegions == 2     \* rows of the region layer

Levels == 1..5
CatalogueCodes == {"CAN", "NLD", "ATA"}
LayerCodes == {"CAN", "NLD"}

RingOfArea(c, a) == [area |-> a, centroid |-> c, exterior |-> Triangle(c)]

\* one geometry per country: two islands of Canada on either side of the
\* cut-off, a small two-part area with a tiny part, a single polygon
GeometryOf(code) ==
    CASE code = "CAN" -> MultiPolygon(<<RingCANInside, RingCANEdge>>)
      [] code = "NLD" -> MultiPolygon(<<RingOfArea(<<8226, 5440>>, 1),
                                        RingOfArea(<<8226, 5441>>, 50)>>)
      [] OTHER -> Polygon(RingRUSEdge)

\* no element twice
Distinct(q) == \A i, j \in 1..Len(q) : i # j => q[i] # q[j]

Level0Tables ==
    {Table(CountryCols, [i \in 1..Len(cs) |-> CountryRow(cs[i], GeometryOf(cs[i]))]) :
        cs \in {q \in SeqsUpTo(CatalogueCodes, MaxCountries) : Distinct(q)}}

LevelTables(L) ==
    UNION {{Table(RegionCols(L),
                  [i \in 1..n |-> RegionRow(a[i][1], i, L, a[i][2], GeometryOf(a[i][1]))]) :
               a \in [1..n -> LayerCodes \X RegionTypes]} : n \in 0..MaxRegions}

\* the GADM file with its layer level0 and the layer of the requested level,
\* which the file names either as line 171 asks for it or as line 135 does
InitCatalogue ==
    /\ NoSimplify
    /\ assigned_level \in Levels
    /\ \E level0 \in Level0Tables, level_x \in LevelTables(assigned_level),
          name \in {"layer", "level"} :
          gadm = [l \in {"level0", name \o ToString(assigned_level)} |->
                     IF l = "level0" THEN level0 ELSE level_x]
    /\ gpkg = [p \in Paths |-> NoFile]
    /\ layers_read = {}
    /\ stdout = <<>>
    /\ poly_dir = [d \in PolyDirs |-> {}]
    /\ poly_call = NoCall
    /\ pc = {}
    /\ NoClip

NextCatalogue == GlobalShapefilesCountries \/ GlobalShapefilesRegions \/ PolyFiles

SpecCatalogue == InitCatalogue /\ [][NextCatalogue]_vars

(***************************************************************************)
(* clip_osm_osmconvert, clip_osm_osmosis, single_country, all_countries    *)
(*                                                                         *)
(* Paths are relative to data_path.  An extract on disk is a record        *)
(* [path, tool, source, poly]: the command line that produced it.  Where   *)
(* the code cuts a file name (split, startswith) the name is taken as its  *)
(* sequence of characters.                                                 *)
(***************************************************************************)
PlanetPath == "planet_osm/planet-latest.osm.pbf"
CountryOsmDir == "country_osm"
RegionOsmDir == "region_osm_admin1"
OsmconvertPath == "osmconvert64-0.8.8p"
OsmosisPath == "osmosis"
\* what '{}'.format(planet_osm) gives: planet_osm is the function of line 76
PlanetOsmFunction == "<function planet_osm>"
Backends == {"osmconvert", "osmosis"}

\* os.path.join
join(dir, name) == dir \o "/" \o name

\* the string of a sequence of characters
RECURSIVE Str(_)
Str(q) == IF q = <<>> THEN "" ELSE Head(q) \o Str(Tail(q))

\* x.split('.')[0]
RECURSIVE split_first(_)
split_first(q) ==
    IF q = <<>> \/ Head(q) = "." THEN <<>> ELSE <<Head(q)>> \o split_first(Tail(q))

\* x.startswith(prefix)
startswith(q, prefix) ==
    Len(q) >= Len(prefix) /\ SubSeq(q, 1, Len(prefix)) = prefix

\* os.path.exists(path)
exists(files, path) == \E f \in files : f.path = path

\* the test "os.path.exists(area_pbf) is not True"
must_run_always(files, area_pbf) == TRUE
must_run(files, area_pbf) == ~exists(files, area_pbf)

\* the command line handed to os.system by either backend
command(backend, planet_path, area_poly, area_pbf) ==
    IF backend = "osmconvert"
    THEN [tool |-> OsmconvertPath, source |-> planet_path,
          poly |-> area_poly, dest |-> area_pbf]
    ELSE [tool |-> OsmosisPath, source |-> PlanetOsmFunction,
          poly |-> area_poly, dest |-> area_pbf]

\* os.system(cmd): the external tool either leaves its output at the
\* destination, replacing what was there, or leaves the disk as it was; it
\* raises nothing in the caller
os_system(files, cmd, ok) ==
    IF ok
    THEN {f \in files : f.path # cmd.dest}
            \cup {[path |-> cmd.dest, tool |-> cmd.tool, source |-> cmd.source,
                   poly |-> cmd.poly]}
    ELSE files

started(area_pbf) == area_pbf \o " started!"
finished(area_pbf) == area_pbf \o " finished!"

\* one whole call of clip_osm_osmconvert or clip_osm_osmosis: the files after
\* it, the commands it issued, the lines it printed.  Nothing in the try block
\* raises, so "did not finish!" is never printed.
clip(backend, files, planet_path, area_poly, area_pbf, ok) ==
    LET cmd == command(backend, planet_path, area_poly, area_pbf)
        run == must_run(files, area_pbf)
    IN  [files |-> IF run THEN os_system(files, cmd, ok) ELSE files,
         invoked |-> IF run THEN <<cmd>> ELSE <<>>,
         printed |-> <<started(area_pbf), finished(area_pbf)>>]

\* a task of pool.starmap: the arguments zipped for it, where its worker is
\* ("queued", "running" inside os.system, "done") and whether it called
\* os.system
Task(backend, planet_path, area_poly, area_pbf) ==
    [backend |-> backend, planet_path |-> planet_path, area_poly |-> area_poly,
     area_pbf |-> area_pbf, pc |-> "queued", ran |-> FALSE]

ctry_poly(country) == join(CountryPolyDir, Str(country) \o ".poly")
ctry_pbf(country) == join(CountryOsmDir, Str(country) \o ".osm.pbf")

\* the lists single_country zips for the pool, for one order of os.listdir
region_tasks(listing, country, backend) ==
    LET get_poly_files == SelectSeq(listing, LAMBDA n : startswith(n, country))
    IN  [i \in 1..Len(get_poly_files) |->
            Task(backend, ctry_pbf(country),
                 join(RegionalPolyDir, Str(get_poly_files[i])),
                 join(RegionOsmDir, Str(split_first(get_poly_files[i])) \o ".osm.pbf"))]

Running == {i \in 1..Len(pool) : pool[i].pc = "running"}
Queued == {i \in 1..Len(pool) : pool[i].pc = "queued"}

(***************************************************************************)
(* Inputs of the clipping functions                                        *)
(***************************************************************************)
Workers == 2        \* cpu_count() - 1
MaxPolyFiles == 2   \* files in regional_poly_files
MaxCalls == 2       \* direct calls of a clipping function

CAN == <<"C", "A", "N">>
NLD == <<"N", "L", "D">>
ClipCountries == {CAN, NLD}
DotPoly == <<".", "p", "o", "l", "y">>
\* the names poly_files gives regional artifacts: GID_1, then ".poly"
RegionalNames ==
    {CAN \o <<".", "1", "_", "1">> \o DotPoly,
     CAN \o <<".", "2", "_", "1">> \o DotPoly,
     CAN \o <<".", "3", "_", "1">> \o DotPoly,
     NLD \o <<".", "1", "_", "1">> \o DotPoly}

\* the characters of a file name
Chars(name) == CHOOSE q \in RegionalNames : Str(q) = name

\* os.listdir(dir) in one of the orders the file system may give
Listings(dir) ==
    LET names == {Chars(f.name) : f \in poly_dir[dir]}
    IN  {q \in [1..Cardinality(names) -> names] :
            \A i, j \in 1..Cardinality(names) : i # j => q[i] # q[j]}

\* the artifacts of an earlier poly_files run are in place; nothing is clipped
InitClip ==
    /\ NoSimplify
    /\ gadm = <<>>
    /\ gpkg = <<>>
    /\ assigned_level = 0
    /\ layers_read = {}
    /\ stdout = <<>>
    /\ \E names \in SUBSET RegionalNames :
            /\ Cardinality(names) <= MaxPolyFiles
            /\ poly_dir = [d \in PolyDirs |->
                    IF d = RegionalPolyDir
                    THEN {[name |-> Str(n), lines |-> <<>>] : n \in names}
                    ELSE {[name |-> Str(c) \o ".poly", lines |-> <<>>] : c \in ClipCountries}]
    /\ poly_call = NoCall
    /\ pc = {}
    /\ NoClip

\* a direct call of one backend on a country
ClipCall(backend) ==
    \E country \in ClipCountries, ok \in BOOLEAN :
        /\ batch_call = NoCall
        /\ Len(stdout) < 2 * MaxCalls
        /\ LET done == clip(backend, osm, PlanetPath, ctry_poly(country),
                            ctry_pbf(country), ok)
           IN  /\ osm' = done.files
               /\ invoked' = invoked \o done.invoked
               /\ stdout' = stdout \o done.printed
        /\ pc' = pc \cup {"clip_osm_" \o backend}
        /\ UNCHANGED <<x, rts_regionalized, rts_result, gadm, gpkg, assigned_level,
                       layers_read, poly_dir, poly_call, pool, batch_call>>

ClipOsmOsmconvert == ClipCall("osmconvert")
ClipOsmOsmosis == ClipCall("osmosis")

\* single_country(country, regionalized, create_poly_files, osm_convert) up to
\* pool.starmap; the workers' steps follow
SingleCountry ==
    \E country \in ClipCountries, regionalized \in BOOLEAN,
       create_poly_files \in BOOLEAN, osm_convert \in BOOLEAN, ok \in BOOLEAN :
        /\ batch_call = NoCall
        /\ pc' = pc \cup {"single_country"}
        /\ IF create_poly_files
           THEN \* poly_files has no parameter save_shapefile
                /\ batch_call' = [called |-> TRUE, function |-> "single_country",
                                  regionalized |-> regionalized, status |-> "TypeError"]
                /\ UNCHANGED <<osm, invoked, stdout, pool>>
           ELSE LET backend == IF osm_convert THEN "osmconvert" ELSE "osmosis"
                    done == clip(backend, osm, PlanetPath, ctry_poly(country),
                                 ctry_pbf(country), ok)
                IN  /\ batch_call' = [called |-> TRUE, function |-> "single_country",
                                      regionalized |-> regionalized, status |-> "ok"]
                    /\ osm' = done.files
                    /\ invoked' = invoked \o done.invoked
                    /\ stdout' = stdout \o done.printed
                    /\ IF regionalized
                       THEN \E listing \in Listings(RegionalPolyDir) :
                                pool' = region_tasks(listing, country, backend)
                       ELSE pool' = <<>>
        /\ UNCHANGED <<x, rts_regionalized, rts_result, gadm, gpkg, assigned_level,
                       layers_read, poly_dir, poly_call>>

\* all_countries: the call poly_files(..., save_shapefile=False, ...) comes
\* before anything else and poly_files has no such parameter
AllCountries ==
    \E regionalized \in BOOLEAN :
        /\ batch_call = NoCall
        /\ batch_call' = [called |-> TRUE, function |-> "all_countries",
                          regionalized |-> regionalized, status |-> "TypeError"]
        /\ pc' = pc \cup {"all_countries"}
        /\ UNCHANGED <<x, rts_regionalized, rts_result, gadm, gpkg, assigned_level,
                       layers_read, stdout, poly_dir, poly_call, osm, invoked, pool>>

\* an idle worker takes the next task of the list and runs the clipping
\* function up to its call of os.system
WorkerStart ==
    /\ Queued # {}
    /\ Cardinality(Running) < Workers
    /\ LET i == CHOOSE k \in Queued : \A j \in Queued : k <= j
           t == pool[i]
           run == must_run(osm, t.area_pbf)
       IN  /\ stdout' = stdout \o <<started(t.area_pbf)>>
                            \o (IF run THEN <<>> ELSE <<finished(t.area_pbf)>>)
           /\ invoked' = IF run
                         THEN Append(invoked, command(t.backend, t.planet_path,
                                                      t.area_poly, t.area_pbf))
                         ELSE invoked
           /\ pool' = [pool EXCEPT ![i].pc = IF run THEN "running" ELSE "done",
                                   ![i].ran = run]
    /\ UNCHANGED <<x, rts_regionalized, rts_result, gadm, gpkg, assigned_level,
                   layers_read, poly_dir, poly_call, pc, osm, batch_call>>

\* os.system returns in a worker, which prints and ends the task
WorkerFinish ==
    \E i \in Running, ok \in BOOLEAN :
        LET t == pool[i]
        IN  /\ osm' = os_system(osm, command(t.backend, t.planet_path, t.area_poly,
                                             t.area_pbf), ok)
            /\ stdout' = Append(stdout, finished(t.area_pbf))
            /\ pool' = [pool EXCEPT ![i].pc = "done"]
            /\ UNCHANGED <<x, rts_regionalized, rts_result, gadm, gpkg, assigned_level,
                           layers_read, poly_dir, poly_call, pc, invoked, batch_call>>

NextClip ==
    \/ ClipOsmOsmconvert
    \/ ClipOsmOsmosis
    \/ SingleCountry
    \/ AllCountries
    \/ WorkerStart
    \/ WorkerFinish

SpecClip == InitClip /\ [][NextClip]_vars

(***************************************************************************)
(* Properties of remove_tiny_shapes                                        *)
(***************************************************************************)
Returned == rts_result # Pending
IsMulti == x.geometry.type = "MultiPolygon"
TotalArea == Area(x.geometry)
Floor == IF rts_regionalized THEN 10 ELSE 100
SizeClass == IF rts_regionalized THEN 50000 ELSE 250000
TableThreshold ==
    IF x.GID_0 \in {"CHL", "IDN", "RUS", "GRL", "CAN", "USA"} THEN 10
    ELSE IF TotalArea > SizeClass THEN 100
    ELSE 1

\* C1: a multipolygon of total area >= area1 comes back as exactly its parts
\* of area > the threshold of the decision table, in their order; every part
\* of area <= that threshold is dropped.
C1_Filtered ==
    (Returned /\ IsMulti /\ TotalArea >= Floor) =>
        /\ rts_result # None
        /\ rts_result.type = "MultiPolygon"
        /\ rts_result.rings = SelectSeq(x.geometry.rings, LAMBDA r : r.area > TableThreshold)
        /\ \A i \in 1..Len(x.geometry.rings) :
              x.geometry.rings[i].area <= TableThreshold =>
                  \A j \in 1..Len(rts_result.rings) :
                      rts_result.rings[j].area # x.geometry.rings[i].area

\* C1 happens: an override country and an ordinary one, each losing a part
C1_Witness ==
    /\ Returned /\ IsMulti /\ TotalArea >= Floor
    /\ x.GID_0 = "NLD" /\ TotalArea > SizeClass
    /\ Len(rts_result.rings) = 1 /\ Len(x.geometry.rings) = 3

\* C2: a multipolygon of total area < area1 comes back unchanged, whatever
\* the areas of its parts and whatever the country code.
C2_Identity ==
    (Returned /\ IsMulti /\ TotalArea < Floor) => rts_result = x.geometry

\* C2 happens: an override country below the floor keeps a part it would lose
C2_Witness ==
    /\ Returned /\ IsMulti /\ TotalArea < Floor
    /\ x.GID_0 = "CAN" /\ ~rts_regionalized
    /\ \E i \in 1..Len(x.geometry.rings) : x.geometry.rings[i].area <= 10
    /\ Len(rts_result.rings) = 2

(***************************************************************************)
(* Reading an artifact back                                                *)
(***************************************************************************)
Called == poly_call # NoCall
Regional == Called /\ poly_call.regionalized
Completed == Called /\ poly_call.status = "ok"

\* the table poly_files read and the directory it wrote to
ReadTable == gpkg[IF Regional THEN RegionsPath ELSE WorldCountriesPath]
Written == poly_dir[IF Regional THEN RegionalPolyDir ELSE CountryPolyDir]

IsIndexLine(l, n) == l \in {ToString(k) : k \in 0..n}
IsVertexLine(l) == l # "END" /\ \A k \in 0..9 : l # ToString(k)

RECURSIVE LeadingVertexLines(_)
LeadingVertexLines(ls) ==
    IF ls = <<>> \/ ~IsVertexLine(Head(ls)) THEN 0 ELSE 1 + LeadingVertexLines(Tail(ls))

\* the blocks after the first line: [ok, blocks], ok when the lines are index
\* line, vertex lines, END, ..., and one last END
RECURSIVE ParseBlocks(_)
ParseBlocks(ls) ==
    IF ls = <<"END">> THEN [ok |-> TRUE, blocks |-> <<>>]
    ELSE IF ls = <<>> \/ ~IsIndexLine(Head(ls), Len(ls))
        THEN [ok |-> FALSE, blocks |-> <<>>]
    ELSE LET body == Tail(ls)
             n == LeadingVertexLines(body)
             after == SubSeq(body, n + 1, Len(body))
         IN  IF after = <<>> \/ Head(after) # "END" THEN [ok |-> FALSE, blocks |-> <<>>]
             ELSE LET rest == ParseBlocks(Tail(after))
                  IN  [ok |-> rest.ok,
                       blocks |-> <<[index |-> Head(ls), vertices |-> SubSeq(body, 1, n)]>>
                                     \o rest.blocks]

Parsed(file) == IF file.lines = <<>> THEN [ok |-> FALSE, blocks |-> <<>>]
                ELSE ParseBlocks(Tail(file.lines))

Ends(file) == Cardinality({i \in 1..Len(file.lines) : file.lines[i] = "END"})

\* the rows that pass the filter, and the code each is written under
Surviving ==
    SelectSeq(ReadTable.rows,
              LAMBDA f : f.GID_0 # "-" /\ (Regional => f.TYPE_1 # "Water body"))
CodeOf(f) == IF Regional THEN f.GID_1 ELSE f.GID_0
HasShape(f) == f.geometry.type \in {"Polygon", "MultiPolygon"}

\* the row a file was last written for, when the call ran to its end
Writers(file) == {i \in 1..Len(Surviving) : CodeOf(Surviving[i]) \o ".poly" = file.name}
Writer(file) == Surviving[CHOOSE i \in Writers(file) : \A j \in Writers(file) : j <= i]

Kilometres(ring, reference) == geodesic(<<ring.centroid[2], ring.centroid[1]>>, reference)

\* the rings the exclusion rules let through for country code c
Allowed(c, rings) ==
    SelectSeq(rings,
              LAMBDA r : /\ (c = "CAN" => Kilometres(r, <<8324, -7980>>) >= 2000)
                         /\ (c = "RUS" => Kilometres(r, <<5889, 8226>>) >= 500))

\* the blocks of file are these rings, one each, in this order
BlocksAre(file, rings) ==
    /\ Parsed(file).ok
    /\ Len(Parsed(file).blocks) = Len(rings)
    /\ \A i \in 1..Len(rings) :
          Parsed(file).blocks[i].vertices = vertex_lines(rings[i].exterior)

(***************************************************************************)
(* Properties of poly_files                                                *)
(***************************************************************************)
\* C3: in a country-level artifact of CAN a ring is written exactly when its
\* centroid is at least 2000 km from (83.24 N, 79.80 W), in one of RUS exactly
\* when it is at least 500 km from (58.89 N, 82.26 E), and for any other code
\* every ring of the geometry is written.
C3_CountryRings ==
    (Called /\ ~Regional) =>
        /\ Completed =>
              \A file \in Written :
                  HasShape(Writer(file)) =>
                      BlocksAre(file, Allowed(Writer(file).GID_0,
                                              Writer(file).geometry.rings))
        /\ ~Completed => \A file \in Written : Len(file.lines) <= 1

\* C3 happens: a CAN artifact with a ring left out and a ring written, a RUS
\* one likewise
C3_Witness ==
    /\ Completed /\ ~Regional
    /\ \E file \in Written :
          /\ Writer(file).GID_0 = "CAN"
          /\ Writer(file).geometry.rings = <<RingCANInside, RingCANEdge, RingRUSInside>>
          /\ Len(Parsed(file).blocks) = 2

\* C4 as claimed: in a regional run no ring is left out of any artifact
C4_NoRegionalExclusion ==
    (Regional /\ Completed) =>
        \A file \in Written :
            HasShape(Writer(file)) => BlocksAre(file, Writer(file).geometry.rings)

\* C4: the exclusion rules go by the row's GID_0 in a regional run as well: a
\* region of CAN or RUS loses the rings inside the cut-off, a region of any
\* other country keeps every ring.
C4_RegionalRings ==
    Regional =>
        /\ Completed =>
              \A file \in Written :
                  HasShape(Writer(file)) =>
                      BlocksAre(file, Allowed(Writer(file).GID_0,
                                              Writer(file).geometry.rings))
        /\ ~Completed => \A file \in Written : Len(file.lines) <= 1

\* C4 happens: a region of CAN written without its ring near the reference
C4_Witness ==
    /\ Regional /\ Completed
    /\ \E file \in Written :
          /\ file.name = "CAN.1_1.poly"
          /\ Writer(file).geometry.rings = <<RingCANEdge, RingCANInside>>
          /\ Len(Parsed(file).blocks) = 1

\* C5: every artifact is its code on the first line, then one block per
\* written ring (a line with the ring index, the vertex lines, END) and one
\* last END; the indices are 0, 1, 2, ... without gap or repeat, and the END
\* lines are one more than the blocks.
C5_ArtifactStructure ==
    Called =>
        \A file \in Written :
            /\ file.lines # <<>>
            /\ file.name = file.lines[1] \o ".poly"
            /\ Parsed(file).ok
            /\ \A i \in 1..Len(Parsed(file).blocks) :
                  Parsed(file).blocks[i].index = ToString(i - 1)
            /\ Ends(file) = Len(Parsed(file).blocks) + 1

\* C6: no artifact for a row with GID_0 '-', none for a 'Water body' row of a
\* regional run, and an artifact for every other row of the table.
C6_FilteredRows ==
    Called =>
        /\ \A i \in 1..Len(ReadTable.rows) :
              LET f == ReadTable.rows[i] IN
              (f.GID_0 = "-" \/ (Regional /\ f.TYPE_1 = "Water body")) =>
                  \/ \E j \in 1..Len(Surviving) : CodeOf(Surviving[j]) = CodeOf(f)
                  \/ \A file \in Written : file.name # CodeOf(f) \o ".poly"
        /\ \A j \in 1..Len(Surviving) :
              \E file \in Written : file.name = CodeOf(Surviving[j]) \o ".poly"

\* C9: a row whose geometry is neither a Polygon nor a MultiPolygon has no
\* ring of another area written under its code, and every other row of the
\* table, before and after it, has its complete artifact.
C9_ErrorConfined ==
    (Called /\ \E j \in 1..Len(Surviving) : ~HasShape(Surviving[j])) =>
        /\ \A file \in Written :
              (Writers(file) # {} /\ ~HasShape(Writer(file))) =>
                  Parsed(file).blocks = <<>>
        /\ \A j \in 1..Len(Surviving) :
              HasShape(Surviving[j]) =>
                  \E file \in Written :
                      /\ file.name = CodeOf(Surviving[j]) \o ".poly"
                      /\ Writer(file) = Surviving[j] =>
                            BlocksAre(file, Allowed(Surviving[j].GID_0,
                                                    Surviving[j].geometry.rings))

(***************************************************************************)
(* Properties of global_shapefiles                                         *)
(***************************************************************************)
RegionsWritten == gpkg[RegionsPath] # NoFile
LevelColumn == "GID_" \o ToString(assigned_level)
LayerRead == gadm["layer" \o ToString(assigned_level)]

\* the rows global_shapefiles added after those of the region layer
Added ==
    SubSeq(gpkg[RegionsPath].rows, Len(LayerRead.rows) + 1, Len(gpkg[RegionsPath].rows))

\* the countries of the country file without a row in the region layer
WithoutRegions ==
    {gpkg[CountryPath].rows[i].GID_0 : i \in 1..Len(gpkg[CountryPath].rows)}
        \ {LayerRead.rows[i].GID_0 : i \in 1..Len(LayerRead.rows)}

\* C7 as claimed: the code has (L-1) times '.0' between the country code and '_1'
C7_OneSegmentFewer ==
    RegionsWritten =>
        \A i \in 1..Len(Added) :
            Added[i][LevelColumn] =
                Added[i].GID_0 \o Repeat(".0", assigned_level - 1) \o "_1"

\* C7: each country without rows at level L gets one added row, whose region
\* code at level L is the country code, L times '.0', and '_1'.
C7_MissingCode ==
    RegionsWritten =>
        /\ {Added[i].GID_0 : i \in 1..Len(Added)} = WithoutRegions
        /\ Len(Added) = Cardinality(WithoutRegions)
        /\ \A i \in 1..Len(Added) :
              Added[i][LevelColumn] = Added[i].GID_0 \o Repeat(".0", assigned_level) \o "_1"

\* C7 happens: a country without rows at level 3 is given its code
C7_Witness ==
    /\ RegionsWritten
    /\ assigned_level = 3
    /\ \E i \in 1..Len(Added) : Added[i].GID_0 = "NLD" /\ Added[i].GID_3 = "NLD.0.0.0_1"

\* C8: after the regional global_shapefiles and the regional poly_files, on a
\* region layer without water bodies, every country of the country file has
\* an artifact named by the level-L code of one of its rows, and every
\* artifact is named by the level-L code of a row.
C8_EveryCountryAtLevel ==
    (RegionsWritten /\ Regional
        /\ \A j \in 1..Len(gpkg[RegionsPath].rows) :
              gpkg[RegionsPath].rows[j].TYPE_1 # "Water body") =>
        /\ \A i \in 1..Len(gpkg[CountryPath].rows) :
              \E file \in poly_dir[RegionalPolyDir], j \in 1..Len(gpkg[RegionsPath].rows) :
                  /\ gpkg[RegionsPath].rows[j].GID_0 = gpkg[CountryPath].rows[i].GID_0
                  /\ file.name = gpkg[RegionsPath].rows[j][LevelColumn] \o ".poly"
        /\ \A file \in poly_dir[RegionalPolyDir] :
              \E j \in 1..Len(gpkg[RegionsPath].rows) :
                  file.name = gpkg[RegionsPath].rows[j][LevelColumn] \o ".poly"

\* C10: a regional global_shapefiles that finds no country file prints the
\* error and leaves every file as it was, without reading a layer.
C10_NoCountryFile ==
    [][("global_regions" \in pc' /\ "global_regions" \notin pc
            /\ gpkg[CountryPath] = NoFile) =>
          /\ gpkg' = gpkg
          /\ layers_read' = layers_read
          /\ poly_dir' = poly_dir
          /\ stdout' = Append(stdout, "ERROR: You need to create the country file first")
      ]_vars

\* C10 happens: the regional run came first and returned
C10_Witness ==
    /\ "global_regions" \in pc
    /\ "global_countries" \notin pc
    /\ stdout = <<"ERROR: You need to create the country file first">>
    /\ gpkg[RegionsPath] = NoFile

(***************************************************************************)
(* Properties of the clipping functions                                    *)
(***************************************************************************)
\* this step begins a call of a clipping function on the destination d
CallBegins(d) ==
    /\ Len(stdout') > Len(stdout)
    /\ stdout'[Len(stdout) + 1] = started(d)

\* C11: a call of either backend that finds its destination on disk issues no
\* command, leaves every extract as it was and prints "started!" then
\* "finished!", nothing else; so a second run on a destination the first run
\* produced invokes nothing.
C11_ExistingDestinationSkipped ==
    [][\A f \in osm :
            CallBegins(f.path) =>
                /\ invoked' = invoked
                /\ osm' = osm
                /\ stdout' = stdout \o <<started(f.path), finished(f.path)>>
                /\ batch_call'.called => batch_call'.status = "ok"]_vars

\* osmosis produced the extract of CAN, a direct osmconvert call and then the
\* osmosis call of single_country found it and issued nothing
C11_Witness ==
    LET d == ctry_pbf(CAN)
    IN  /\ exists(osm, d)
        /\ {"clip_osm_osmconvert", "clip_osm_osmosis", "single_country"} \subseteq pc
        /\ Len(invoked) = 1
        /\ invoked[1].tool = OsmosisPath
        /\ invoked[1].dest = d
        /\ stdout = <<started(d), finished(d), started(d), finished(d),
                      started(d), finished(d)>>
        /\ pool # <<>>
        /\ pool[1].backend = "osmosis"
        /\ pool[1].pc = "queued"

\* the tasks of the pool are told apart by their boundary artifact
DistinctDestinations ==
    \A i, j \in 1..Len(pool) :
        pool[i].area_poly # pool[j].area_poly => pool[i].area_pbf # pool[j].area_pbf

\* no two workers have called os.system on one destination
NoSharedInvocation ==
    \A i, j \in 1..Len(pool) :
        (i # j /\ pool[i].ran /\ pool[j].ran) => pool[i].area_pbf # pool[j].area_pbf

\* an extract a task finds at its destination was cut with that task's artifact
SameArtifact ==
    \A i \in 1..Len(pool) : \A f \in osm :
        f.path = pool[i].area_pbf => f.poly = pool[i].area_poly

\* C12: in a batch, distinct boundary artifacts have distinct destinations, no
\* two workers invoke the clipper on one destination, and every destination
\* holds the extract of its own artifact whatever the schedule.
C12_ScheduleIndependent ==
    /\ DistinctDestinations
    /\ NoSharedInvocation
    /\ SameArtifact

\* C13: in a regional run every region row is cleaned under the pair
\* (0.01, 50): a multipolygon of total area in [0.01, 0.1) loses its parts of
\* area <= 0.001, and one of a country without override and of total area in
\* (50, 250] loses its parts of area <= 0.1.
C13_RegionalThresholds ==
    RegionsWritten =>
        \A i \in 1..Len(LayerRead.rows) :
            LET before == LayerRead.rows[i].geometry
                after == gpkg[RegionsPath].rows[i].geometry
                total == Area(before)
                limit == IF total >= 10 /\ total < 100 THEN 1
                         ELSE IF total > 50000 /\ total <= 250000 THEN 100
                         ELSE 0
            IN  (before.type = "MultiPolygon"
                    /\ LayerRead.rows[i].GID_0 \notin {"CHL", "IDN", "RUS", "GRL", "CAN", "USA"}) =>
                    \A k \in 1..Len(before.rings) :
                        before.rings[k].area <= limit =>
                            \A j \in 1..Len(after.rings) : after.rings[j] # before.rings[k]

====
